---- MODULE Spec2Model ----
(***************************************************************************)
(* gochain: a single node of a proof-of-work ledger.                       *)
(*                                                                         *)
(* The node's state is the Blockchain struct (chain, transactions, nodes). *)
(* Every HTTP handler runs in its own goroutine and the struct carries no  *)
(* lock, so the handlers are modelled as processes that interleave at the  *)
(* granularity of one Go statement reading or writing the shared struct.   *)
(*                                                                         *)
(* Transaction carries the Fee field that handler.Mine reads and writes    *)
(* (the struct declaration in the ledger file lacks it).                   *)
(*                                                                         *)
(* Strings are sequences of character codes ("0" is 48, "-" is 45).        *)
(* Identifiers (sender, recipient, node id, peer host) are naturals that   *)
(* stand for distinct identifier strings.                                  *)
(***************************************************************************)
EXTENDS Integers, Sequences, FiniteSets, TLC

(***************************************************************************)
(* Bounds of the model.                                                    *)
(***************************************************************************)
\* number of requests the node serves, of all kinds together
MaxRequests == 3
\* lastProof inputs of the proof-of-work specification: -MaxLastProof..MaxLastProof
MaxLastProof == 60
\* chains given to the validator specification have 0..MaxChainLen blocks
MaxChainLen == 3
\* and their blocks a proof in 0..MaxGuess
MaxGuess == 3

(***************************************************************************)
(* Program constants.                                                      *)
(***************************************************************************)
\* proof of the sentinel block, NewBlockchain: NewBlock(100, "1")
GenesisProof == 100
\* amount of the subsidy transaction, handler.Mine
Subsidy == 1
\* number of leading digest characters that must be '0', ValidProof: guessHash[:4]
Difficulty == 4
\* the sender "0" of a subsidy transaction
Coinbase == 0
\* h.nodeId, the identifier of this node
nodeId == 9

\* the string "1": previous hash of the sentinel block
SentinelHash == <<49>>

(***************************************************************************)
(* Hasher.                                                                 *)
(***************************************************************************)
\* fmt.Sprintf("%d", n): the decimal digits of n, with a leading '-' if n < 0
RECURSIVE Digits(_)
Digits(n) ==
    IF n < 10 THEN <<48 + n>> ELSE Append(Digits(n \div 10), 48 + (n % 10))

Decimal(n) == IF n < 0 THEN <<45>> \o Digits(0 - n) ELSE Digits(n)

\* modulus of the digest abstraction: one guess in HashRange is a valid proof
HashRange == 4

\* the mixing of SHA-256, abstracted: a rolling function of all the bytes
RECURSIVE Mix(_, _)
Mix(h, bytes) ==
    IF bytes = <<>> THEN h
    ELSE Mix((3 * h + Head(bytes)) % HashRange, Tail(bytes))

\* ComputeHashSha256: the hex digest of a byte string.  The first Difficulty
\* characters are a pseudo-random function of the input; the rest of the digest
\* identifies the input (no two inputs share a digest).
ComputeHashSha256(bytes) ==
    LET h == Mix(1, bytes)
    IN  <<48 + (h % 2), 48 + (h \div 2), 48, 48>> \o bytes

(***************************************************************************)
(* Ledger: transactions and blocks.                                        *)
(***************************************************************************)
\* Transaction{Sender, Recipient, Amount, Fee}
Transaction(sender, recipient, amount, fee) ==
    [sender |-> sender, recipient |-> recipient, amount |-> amount, fee |-> fee]

\* Block{Index, Timestamp, Transactions, Proof, PreviousHash}
Block(index, timestamp, txs, proof, previousHash) ==
    [index |-> index, timestamp |-> timestamp, transactions |-> txs,
     proof |-> proof, previous_hash |-> previousHash]

RECURSIVE MarshalTxs(_)
MarshalTxs(txs) ==
    IF txs = <<>> THEN <<>>
    ELSE LET t == Head(txs)
         IN  <<t.sender, t.recipient, t.amount, t.fee>> \o MarshalTxs(Tail(txs))

\* json.Marshal(block): every field in declaration order, each variable-length
\* part preceded by its length, so that different blocks give different bytes
MarshalBlock(block) ==
    <<block.index, block.timestamp, Len(block.transactions)>>
        \o MarshalTxs(block.transactions)
        \o <<block.proof, Len(block.previous_hash)>> \o block.previous_hash

computeHashForBlock(block) == ComputeHashSha256(MarshalBlock(block))

(***************************************************************************)
(* Miner: proof of work.                                                   *)
(***************************************************************************)
ValidProof(lastProof, proof) ==
    LET guess == Decimal(lastProof) \o Decimal(proof)
        guessHash == ComputeHashSha256(guess)
    IN  SubSeq(guessHash, 1, Difficulty) = [k \in 1..Difficulty |-> 48]

RECURSIVE SearchFrom(_, _)
SearchFrom(lastProof, proof) ==
    IF ValidProof(lastProof, proof) THEN proof
    ELSE SearchFrom(lastProof, proof + 1)

\* a search that skips the candidate 0
ProofOfWorkSkipZero(lastProof) == SearchFrom(lastProof, 1)

ProofOfWork(lastProof) == SearchFrom(lastProof, 0)

(***************************************************************************)
(* Chain validator.                                                        *)
(***************************************************************************)
\* the loop of ValidChain from currentIndex on; the chain is 1-based here
RECURSIVE ValidFrom(_, _)
ValidFrom(c, currentIndex) ==
    IF currentIndex > Len(c) THEN TRUE
    ELSE LET lastBlock == c[currentIndex - 1]
             block == c[currentIndex]
         IN  IF block.previous_hash # computeHashForBlock(lastBlock) THEN FALSE
             ELSE IF ~ValidProof(lastBlock.proof, block.proof) THEN FALSE
             ELSE ValidFrom(c, currentIndex + 1)

\* ValidChain reads (*chain)[0] first: an empty chain is an index out of range
ValidChainPanics(c) == Len(c) = 0

\* a validator that starts its walk one block too late
ValidChainFromThird(c) == ValidFrom(c, 3)

ValidChain(c) == ValidFrom(c, 2)

(***************************************************************************)
(* The world outside the node: callers' inputs and peers' answers.         *)
(***************************************************************************)
\* fees a submitted transaction may carry
Fees == {0, 5}

\* hosts that answer on the network
Hosts == {"p1", "p2"}

\* addresses given to /nodes/register, by what url.Parse makes of them:
\*   "http://p1", "http://p2"  parse, Host is the host
\*   "foo", "localhost:5000"   parse, Host is empty (a path; a scheme and an opaque part)
\*   "192.168.0.5:5000"        does not parse (first path segment contains a colon)
Addresses ==
    {[text |-> "http://p1", err |-> FALSE, Host |-> "p1"],
     [text |-> "http://p2", err |-> FALSE, Host |-> "p2"],
     [text |-> "foo", err |-> FALSE, Host |-> ""],
     [text |-> "localhost:5000", err |-> FALSE, Host |-> ""],
     [text |-> "192.168.0.5:5000", err |-> TRUE, Host |-> ""]}

\* what a peer's own NewBlockchain makes: its sentinel block, created at its time ts
PeerGenesis(ts) == Block(1, ts, <<>>, GenesisProof, SentinelHash)

\* a peer's chain after it mined one more block (with index idx) at time ts
PeerMined(c, ts, idx) ==
    LET last == c[Len(c)]
    IN  Append(c, Block(idx, ts, <<Transaction(Coinbase, 8, Subsidy, 0)>>,
                        ProofOfWork(last.proof), computeHashForBlock(last)))

ChainB2 == PeerMined(<<PeerGenesis(100)>>, 101, 2)
ChainB3 == PeerMined(ChainB2, 102, 3)
ChainC2 == PeerMined(<<PeerGenesis(200)>>, 201, 2)
\* three blocks, the last with a proof that is not valid after the second's
ChainBad3 ==
    LET good == PeerMined(ChainC2, 202, 3)
    IN  [good EXCEPT ![3].proof = ProofOfWork(good[2].proof) + 1]

\* two blocks that link and prove, the second numbered 7: the index of a block is
\* part of what json decodes and nothing in ValidChain reads it
ChainX2 == PeerMined(<<PeerGenesis(300)>>, 301, 7)

\* two blocks that link and prove, the first with proof 7 and previous hash "2"
ChainY2 == PeerMined(<<Block(1, 400, <<>>, 7, <<50>>)>>, 401, 2)

\* the body of a 200 answer of GET /chain, decoded: blockchainInfo{Length, Chain}
Info(length, c) == [kind |-> "ok", Length |-> length, Chain |-> c]

\* what http.Get and the decoding of its answer can give for a host
Answers ==
    {[kind |-> "neterr"],               \* http.Get fails (refused, timeout)
     [kind |-> "status"],               \* an answer whose status is not 200
     [kind |-> "decode"],               \* 200 with a body that does not decode
     Info(2, ChainB2),
     Info(3, ChainB3),
     Info(2, ChainC2),
     Info(3, ChainBad3),
     Info(4, ChainB2),                  \* claims more blocks than it sends
     Info(3, <<PeerGenesis(300)>>),     \* claims three blocks, sends one
     Info(2, ChainX2),
     Info(2, ChainY2),
     Info(3, <<>>)}                     \* sends no block

(***************************************************************************)
(* State.                                                                  *)
(***************************************************************************)
\* goroutines serving GET /mine, GET /nodes/resolve and POST /transactions/new
Miners == {"m1", "m2"}
Resolvers == {"r1"}
Submitters == {"s1"}
Procs == Miners \cup Resolvers \cup Submitters

VARIABLES
    chain,          \* Blockchain.chain
    transactions,   \* Blockchain.transactions, the pending pool
    nodes,          \* Blockchain.nodes, in the order Keys() enumerates it
    pc,             \* the statement each goroutine is at ("idle": no request)
    loc,            \* the local variables of each goroutine
    ret,            \* the request that ended in the last step, and how
    clock,          \* time.Now()
    started,        \* number of requests begun so far
    quiet,          \* no step but a resolve request's since a resolve request ended
    answered,       \* while quiet: what the hosts answered to that request
    promised,       \* block index promised to each submitted transaction
    powIn, powOut,  \* input and results of the proof-of-work specification
    vcIn, vcOut     \* input and result of the chain-validator specification

vars == <<chain, transactions, nodes, pc, loc, ret, clock, started,
          quiet, answered, promised, powIn, powOut, vcIn, vcOut>>

NoBlock == Block(0, 0, <<>>, 0, <<>>)

\* the locals of a request.  Two fields are history, not locals of the code:
\* accepted is the pool as it was when the staleness check passed, retries is
\* 1 once the request went back from the staleness check to the search.
LocInit ==
    [curmaxLength |-> 0, tempChain |-> <<>>, transactions |-> <<>>,
     lastProof |-> 0, proof |-> 0, i |-> 0, prevHash |-> <<>>,
     newBlock |-> NoBlock, accepted |-> <<>>, retries |-> 0]

\* no request ended; request of p ended in a panic; request of p returned v
NoRet == [proc |-> "", kind |-> "none", val |-> 0]
Panic(p) == [proc |-> p, kind |-> "panic", val |-> 0]
Returned(p, v) == [proc |-> p, kind |-> "value", val |-> v]

\* no host was asked
NoAnswers == <<>>

\* NewBlockchain: empty chain, pool and peer set, then NewBlock(100, "1")
NewBlockchain == <<Block(1, 0, <<>>, GenesisProof, SentinelHash)>>

LastBlock(c) == c[Len(c)]

Init ==
    /\ chain = NewBlockchain
    /\ transactions = <<>>
    /\ nodes = <<>>
    /\ pc = [p \in Procs |-> "idle"]
    /\ loc = [p \in Procs |-> LocInit]
    /\ ret = NoRet
    /\ clock = 0
    /\ started = 0
    /\ quiet = FALSE
    /\ answered = NoAnswers
    /\ promised = <<>>
    /\ powIn = 0
    /\ powOut = <<>>
    /\ vcIn = <<>>
    /\ vcOut = NoRet

(***************************************************************************)
(* Peer registry.                                                          *)
(***************************************************************************)
\* StringSet: a set whose Keys() enumerates the members in a stable order
StringSetHas(set, x) == \E k \in 1..Len(set) : set[k] = x

\* StringSet.Add: true if x was newly inserted
StringSetAdd(set, x) ==
    IF StringSetHas(set, x) THEN [set |-> set, added |-> FALSE]
    ELSE [set |-> Append(set, x), added |-> TRUE]

\* Blockchain.RegisterNode: the host of the parsed address goes into the set
RegisterNode(address) ==
    IF address.err THEN [set |-> nodes, added |-> FALSE]
    ELSE StringSetAdd(nodes, address.Host)


\* a step of anything but a resolve request ends the quiet
Noise == quiet' = FALSE /\ answered' = NoAnswers

\* one address of the body of POST /nodes/register
Register(address) ==
    /\ started < MaxRequests
    /\ started' = started + 1
    /\ nodes' = RegisterNode(address).set
    /\ ret' = Returned("reg", RegisterNode(address).added)
    /\ Noise
    /\ UNCHANGED <<chain, transactions, pc, loc, clock, promised,
                   powIn, powOut, vcIn, vcOut>>

(***************************************************************************)
(* Consensus resolver.                                                     *)
(***************************************************************************)
NoInfo == [Length |-> 0, Chain |-> <<>>]

\* findExternalChain against the answers in world: the pair (blockchainInfo, err).
\* A status other than 200 falls through to the last return with err == nil.
findExternalChain(world, address) ==
    LET a == IF address \in DOMAIN world THEN world[address]
             ELSE [kind |-> "neterr"]
    IN  CASE a.kind = "ok" ->
               [bi |-> [Length |-> a.Length, Chain |-> a.Chain], err |-> FALSE]
          [] a.kind = "decode" -> [bi |-> NoInfo, err |-> TRUE]
          [] a.kind = "status" -> [bi |-> NoInfo, err |-> FALSE]
          [] OTHER -> [bi |-> NoInfo, err |-> TRUE]

\* the loop of ResolveConflicts over the remaining keys
RECURSIVE Scan(_, _, _, _)
Scan(world, keys, curmaxLength, tempChain) ==
    IF keys = <<>>
    THEN [panic |-> FALSE, curmaxLength |-> curmaxLength, tempChain |-> tempChain]
    ELSE LET got == findExternalChain(world, Head(keys))
             anotherchain == got.bi
         IN  IF got.err THEN Scan(world, Tail(keys), curmaxLength, tempChain)
             ELSE IF ValidChainPanics(anotherchain.Chain)
             THEN [panic |-> TRUE, curmaxLength |-> curmaxLength,
                   tempChain |-> tempChain]
             ELSE IF ~ValidChain(anotherchain.Chain)
             THEN Scan(world, Tail(keys), curmaxLength, tempChain)
             ELSE IF anotherchain.Length > curmaxLength
             THEN Scan(world, Tail(keys), anotherchain.Length, anotherchain.Chain)
             ELSE Scan(world, Tail(keys), curmaxLength, tempChain)

\* var authority bool; authority = true; it is never assigned again
authority == TRUE

\* the statement a goroutine goes to when its ResolveConflicts call returns
AfterResolve(p) == IF p \in Miners THEN "L82" ELSE "idle"

\* a resolve request keeps the quiet; a mine request ends it
Still(p) ==
    IF p \in Resolvers THEN UNCHANGED <<quiet, answered>> ELSE Noise

\* ResolveConflicts, line 134: curmaxLength := len(bc.chain).  It is the first
\* statement of both requests that run the resolver: GET /nodes/resolve
\* (handler.ResolveConflicts) and GET /mine (handler.Mine, line 81).
Resolve134(p) ==
    /\ pc[p] = "idle"
    /\ started < MaxRequests
    /\ started' = started + 1
    /\ loc' = [loc EXCEPT ![p].curmaxLength = Len(chain)]
    /\ pc' = [pc EXCEPT ![p] = "L137"]
    /\ ret' = NoRet
    /\ Still(p)
    /\ UNCHANGED <<chain, transactions, nodes, clock, promised,
                   powIn, powOut, vcIn, vcOut>>

\* a resolver that drops the pending pool when it reads the chain
Resolve137Clearing(p) ==
    /\ pc[p] = "L137"
    /\ loc' = [loc EXCEPT ![p].tempChain = chain]
    /\ pc' = [pc EXCEPT ![p] = "L138"]
    /\ ret' = NoRet
    /\ Still(p)
    /\ transactions' = <<>>
    /\ UNCHANGED <<chain, nodes, clock, started,
                   promised, powIn, powOut, vcIn, vcOut>>

\* line 137: tempChain := bc.chain
Resolve137(p) ==
    /\ pc[p] = "L137"
    /\ loc' = [loc EXCEPT ![p].tempChain = chain]
    /\ pc' = [pc EXCEPT ![p] = "L138"]
    /\ ret' = NoRet
    /\ Still(p)
    /\ UNCHANGED <<chain, transactions, nodes, clock, started,
                   promised, powIn, powOut, vcIn, vcOut>>

\* the hosts among the registered nodes
Known == {h \in Hosts : StringSetHas(nodes, h)}

\* lines 138-152, while the hosts answer as in world: the loop over the peers,
\* then bc.chain = tempChain and the return of !authority.  The loop touches
\* nothing of the node but its locals.  A panic unwinds the request: net/http
\* recovers it and drops the connection.
Resolve138(p, world) ==
    /\ pc[p] = "L138"
    /\ LET r == Scan(world, nodes, loc[p].curmaxLength, loc[p].tempChain)
       IN  IF r.panic
           THEN /\ pc' = [pc EXCEPT ![p] = "idle"]
                /\ ret' = Panic(p)
                /\ UNCHANGED <<chain, promised>>
           ELSE /\ chain' = r.tempChain
                /\ pc' = [pc EXCEPT ![p] = AfterResolve(p)]
                /\ ret' = IF p \in Resolvers THEN Returned(p, ~authority)
                          ELSE NoRet
                /\ promised' = IF r.tempChain = chain THEN promised
                               ELSE [k \in DOMAIN promised |->
                                       [promised[k] EXCEPT !.clean = FALSE]]
    /\ loc' = [loc EXCEPT ![p] = LocInit]
    /\ IF p \in Resolvers
       THEN quiet' = TRUE /\ answered' = world
       ELSE Noise
    /\ UNCHANGED <<transactions, nodes, clock, started,
                   powIn, powOut, vcIn, vcOut>>

\* the answers of the hosts during one request: only those of the registered
\* hosts are ever fetched
Worlds == [Known -> Answers]

(***************************************************************************)
(* Node: GET /mine, after its call of ResolveConflicts.                    *)
(***************************************************************************)
\* Blockchain.NewTransaction, line 84: bc.transactions = append(..., tx)
NewTransaction(tx) == Append(transactions, tx)

\* the locals of a goroutine are written only by its own steps
MineFrame ==
    /\ ret' = NoRet
    /\ Noise
    /\ UNCHANGED <<nodes, started, promised, powIn, powOut, vcIn, vcOut>>

\* line 82: transactions := h.blockchain.transactions
Mine82(m) ==
    /\ pc[m] = "L82"
    /\ loc' = [loc EXCEPT ![m].transactions = transactions]
    /\ pc' = [pc EXCEPT ![m] = "L90"]
    /\ UNCHANGED <<chain, transactions, clock>>
    /\ MineFrame

\* lines 90-99: read the last block's proof, search, restart if the search
\* gave -1
Mine90(m) ==
    /\ pc[m] = "L90"
    /\ LET lastProof == LastBlock(chain).proof
           proof == ProofOfWork(lastProof)
       IN  /\ loc' = [loc EXCEPT ![m].lastProof = lastProof, ![m].proof = proof]
           /\ pc' = [pc EXCEPT ![m] = IF proof = -1 THEN "L90" ELSE "L103"]
    /\ UNCHANGED <<chain, transactions, clock>>
    /\ MineFrame

\* a retry that starts the request over, conflict resolution included
Mine103Reresolve(m) ==
    /\ pc[m] = "L103"
    /\ IF ~ValidProof(LastBlock(chain).proof, loc[m].proof)
       THEN /\ pc' = [pc EXCEPT ![m] = "L137"]
            /\ loc' = [loc EXCEPT ![m].curmaxLength = Len(chain)]
       ELSE /\ pc' = [pc EXCEPT ![m] = "L111"]
            /\ loc' = [loc EXCEPT ![m].i = 1, ![m].accepted = transactions]
    /\ UNCHANGED <<chain, transactions, clock>>
    /\ MineFrame

\* a staleness check that finds every proof stale
Mine103AlwaysStale(m) ==
    /\ pc[m] = "L103"
    /\ pc' = [pc EXCEPT ![m] = "L90"]
    /\ loc' = [loc EXCEPT ![m].retries = 1]
    /\ UNCHANGED <<chain, transactions, clock>>
    /\ MineFrame

\* lines 103-108: restart if the proof is not valid after the block that is
\* last now; otherwise leave the loop
Mine103(m) ==
    /\ pc[m] = "L103"
    /\ IF ~ValidProof(LastBlock(chain).proof, loc[m].proof)
       THEN /\ pc' = [pc EXCEPT ![m] = "L90"]
            /\ loc' = [loc EXCEPT ![m].retries = 1]
       ELSE /\ pc' = [pc EXCEPT ![m] = "L111"]
            /\ loc' = [loc EXCEPT ![m].i = 1, ![m].accepted = transactions]
    /\ UNCHANGED <<chain, transactions, clock>>
    /\ MineFrame

\* lines 111-113, one iteration: a transaction to this node of the fee of the
\* i-th transaction of the copy made at line 82
Mine112(m) ==
    /\ pc[m] = "L111"
    /\ loc[m].i <= Len(loc[m].transactions)
    /\ LET tx == loc[m].transactions[loc[m].i]
       IN  transactions' = NewTransaction(Transaction(tx.sender, nodeId, tx.fee, 0))
    /\ loc' = [loc EXCEPT ![m].i = @ + 1]
    /\ UNCHANGED <<chain, pc, clock>>
    /\ MineFrame

\* lines 116-117, after the loop: the subsidy transaction
Mine117(m) ==
    /\ pc[m] = "L111"
    /\ loc[m].i > Len(loc[m].transactions)
    /\ transactions' = NewTransaction(Transaction(Coinbase, nodeId, Subsidy, 0))
    /\ pc' = [pc EXCEPT ![m] = "L64"]
    /\ UNCHANGED <<chain, loc, clock>>
    /\ MineFrame

\* NewBlock(proof, ""), lines 64-68: the hash of the block that is last now
NewBlock64(m) ==
    /\ pc[m] = "L64"
    /\ loc' = [loc EXCEPT ![m].prevHash = computeHashForBlock(LastBlock(chain))]
    /\ pc' = [pc EXCEPT ![m] = "L70"]
    /\ UNCHANGED <<chain, transactions, clock>>
    /\ MineFrame

\* lines 70-76: the new block, of the chain's length, the time and the pool now
NewBlock70(m) ==
    /\ pc[m] = "L70"
    /\ clock' = clock + 1
    /\ loc' = [loc EXCEPT ![m].newBlock =
                 Block(Len(chain) + 1, clock', transactions, loc[m].proof,
                       loc[m].prevHash)]
    /\ pc' = [pc EXCEPT ![m] = "L78"]
    /\ UNCHANGED <<chain, transactions>>
    /\ MineFrame

\* line 78: bc.transactions = nil
NewBlock78(m) ==
    /\ pc[m] = "L78"
    /\ transactions' = <<>>
    /\ pc' = [pc EXCEPT ![m] = "L79"]
    /\ UNCHANGED <<chain, loc, clock>>
    /\ MineFrame

\* line 79: bc.chain = append(bc.chain, newBlock); the request answers the block
NewBlock79(m) ==
    /\ pc[m] = "L79"
    /\ chain' = Append(chain, loc[m].newBlock)
    /\ pc' = [pc EXCEPT ![m] = "idle"]
    /\ ret' = Returned(m, loc[m].newBlock.index)
    /\ loc' = [loc EXCEPT ![m] = LocInit]
    /\ Noise
    /\ UNCHANGED <<transactions, nodes, clock, started, promised,
                   powIn, powOut, vcIn, vcOut>>

(***************************************************************************)
(* Node: POST /transactions/new.                                           *)
(***************************************************************************)
\* the k-th transaction submitted: its amount tells it from the others
Submitted(k, fee) == Transaction(1, 2, 10 + k, fee)

\* handler.AddTransaction up to NewTransaction, line 84
Submit84(s, fee) ==
    /\ pc[s] = "idle"
    /\ started < MaxRequests
    /\ started' = started + 1
    /\ transactions' = NewTransaction(Submitted(Len(promised) + 1, fee))
    /\ pc' = [pc EXCEPT ![s] = "L85"]
    /\ ret' = NoRet
    /\ Noise
    /\ UNCHANGED <<chain, nodes, loc, clock, promised,
                   powIn, powOut, vcIn, vcOut>>

\* NewTransaction, line 85: return bc.LastBlock().Index + 1
Submit85(s) ==
    /\ pc[s] = "L85"
    /\ LET index == LastBlock(chain).index + 1
       IN  /\ ret' = Returned(s, index)
           /\ promised' = Append(promised, [index |-> index, clean |-> TRUE])
    /\ pc' = [pc EXCEPT ![s] = "idle"]
    /\ Noise
    /\ UNCHANGED <<chain, transactions, nodes, loc, clock, started,
                   powIn, powOut, vcIn, vcOut>>

(***************************************************************************)
(* The node under concurrent requests.                                     *)
(***************************************************************************)
Next ==
    \/ \E a \in Addresses : Register(a)
    \/ \E p \in Miners \cup Resolvers :
          \/ Resolve134(p) \/ Resolve137(p)
          \/ \E world \in Worlds : Resolve138(p, world)
    \/ \E m \in Miners :
          \/ Mine82(m) \/ Mine90(m) \/ Mine103(m) \/ Mine112(m) \/ Mine117(m)
          \/ NewBlock64(m) \/ NewBlock70(m) \/ NewBlock78(m) \/ NewBlock79(m)
    \/ \E s \in Submitters : (\E fee \in Fees : Submit84(s, fee)) \/ Submit85(s)

Spec == Init /\ [][Next]_vars

\* the steps of a mine request after its conflict resolution
MineStep(m) ==
    \/ Mine82(m) \/ Mine90(m) \/ Mine103(m) \/ Mine112(m) \/ Mine117(m)
    \/ NewBlock64(m) \/ NewBlock70(m) \/ NewBlock78(m) \/ NewBlock79(m)

\* the Go scheduler runs every goroutine that can run: a mine request that
\* has a next statement executes it sooner or later
LiveSpec == Spec /\ \A m \in Miners : WF_vars(MineStep(m))

(***************************************************************************)
(* The proof-of-work search on its own, over a range of last proofs.       *)
(***************************************************************************)
InitPow ==
    /\ chain = NewBlockchain
    /\ transactions = <<>>
    /\ nodes = <<>>
    /\ pc = [p \in Procs |-> "idle"]
    /\ loc = [p \in Procs |-> LocInit]
    /\ ret = NoRet
    /\ clock = 0
    /\ started = 0
    /\ quiet = FALSE
    /\ answered = NoAnswers
    /\ promised = <<>>
    /\ powIn \in (0 - MaxLastProof)..MaxLastProof
    /\ powOut = <<>>
    /\ vcIn = <<>>
    /\ vcOut = NoRet

\* one more call of ProofOfWork(powIn)
Solve ==
    /\ Len(powOut) < 2
    /\ powOut' = Append(powOut, ProofOfWork(powIn))
    /\ UNCHANGED <<chain, transactions, nodes, pc, loc, ret, clock, started,
                   quiet, answered, promised, powIn, vcIn, vcOut>>

SpecPow == InitPow /\ [][Solve]_vars

(***************************************************************************)
(* The chain validator on its own, over a range of chains.                 *)
(***************************************************************************)
\* the chains that extend c by one block: any proof, the hash of the last block
\* of c or another string as previous hash
Extensions(c) ==
    {Append(c, Block(Len(c) + 1, Len(c), <<>>, q, h)) :
        q \in 0..MaxGuess,
        h \in {computeHashForBlock(LastBlock(c)), SentinelHash}}

\* the chains of exactly n blocks
RECURSIVE ChainsOfLen(_)
ChainsOfLen(n) ==
    IF n = 0 THEN {<<>>}
    ELSE IF n = 1 THEN {NewBlockchain, <<Block(1, 400, <<>>, 7, <<50>>)>>}
    ELSE UNION {Extensions(c) : c \in ChainsOfLen(n - 1)}

Chains == UNION {ChainsOfLen(n) : n \in 0..MaxChainLen}

\* the node when the validator is called: as created, or after it adopted a
\* chain, registered a peer and took a transaction
InitValid ==
    /\ \/ chain = NewBlockchain /\ transactions = <<>> /\ nodes = <<>>
       \/ chain = ChainB2 /\ transactions = <<Submitted(1, 5)>> /\ nodes = <<"p1">>
    /\ pc = [p \in Procs |-> "idle"]
    /\ loc = [p \in Procs |-> LocInit]
    /\ ret = NoRet
    /\ clock = 0
    /\ started = 0
    /\ quiet = FALSE
    /\ answered = NoAnswers
    /\ promised = <<>>
    /\ powIn = 0
    /\ powOut = <<>>
    /\ vcIn \in Chains
    /\ vcOut = NoRet

\* one call bc.ValidChain(&vcIn)
Validate ==
    /\ vcOut = NoRet
    /\ vcOut' = IF ValidChainPanics(vcIn) THEN Panic("v")
                ELSE Returned("v", ValidChain(vcIn))
    /\ UNCHANGED <<chain, transactions, nodes, pc, loc, ret, clock, started,
                   quiet, answered, promised, powIn, powOut, vcIn>>

SpecValid == InitValid /\ [][Validate]_vars

(***************************************************************************)
(* Properties.                                                             *)
(***************************************************************************)

\* C1: in every reachable state each block after the first carries the hash
\* of the block before it and a proof that is valid after that block's proof.
C1_ChainInvariant ==
    \A k \in 2..Len(chain) :
        /\ chain[k].previous_hash = computeHashForBlock(chain[k - 1])
        /\ ValidProof(chain[k - 1].proof, chain[k].proof)

\* C2: the step of a mine request that appends its block makes the chain
\* one block longer, finds the pool empty, and the appended block carries
\* the hash of the block that was last just before the append.
C2_ChainGrowth ==
    [][\A m \in Miners :
          (pc[m] = "L79" /\ pc'[m] = "idle") =>
              /\ Len(chain') = Len(chain) + 1
              /\ transactions' = <<>>
              /\ LastBlock(chain').previous_hash
                    = computeHashForBlock(LastBlock(chain))]_vars

\* the result of the loop of a resolve request p when the hosts answer as in world
Scanned(p, world) ==
    Scan(world, nodes, loc[p].curmaxLength, loc[p].tempChain)

\* C3: a resolve request returns true exactly when it installed a peer's
\* chain (one longer than the local chain it started from), false exactly
\* when it installed none.
C3_ReplacedIffInstalled ==
    [][\A p \in Resolvers :
          (pc[p] = "L138" /\ pc'[p] = "idle" /\ ret'.kind = "value") =>
              (ret'.val <=>
                  Scanned(p, answered').curmaxLength > loc[p].curmaxLength)]_vars

\* the answers of the registered hosts that carry a chain the validator accepts
ValidCandidates(world) ==
    {a \in {world[h] : h \in DOMAIN world} :
        a.kind = "ok" /\ Len(a.Chain) > 0 /\ ValidChain(a.Chain)}

\* C4: a resolve request that returns has changed the chain only to a valid
\* peer chain whose length exceeds the local length; without such a peer
\* chain it has left the chain as it was; with one, the chain it installed
\* is one of greatest length among the valid peer chains.
C4_AdoptOnlyValidLonger ==
    [][\A p \in Resolvers :
          (pc[p] = "L138" /\ pc'[p] = "idle" /\ ret'.kind = "value") =>
              LET valid == ValidCandidates(answered')
                  longer == {a \in valid : a.Length > loc[p].curmaxLength}
              IN  /\ chain' # chain => \E a \in longer : chain' = a.Chain
                  /\ longer = {} => chain' = chain
                  /\ longer # {} =>
                        \E a \in longer :
                            /\ chain' = a.Chain
                            /\ \A b \in valid : b.Length <= a.Length]_vars

\* C5: a resolve request that follows a resolve request, with the same
\* answers of the hosts and no step of any other request between the two,
\* returns false and leaves the chain as it was.
C5_SecondResolveIdle ==
    [][\A p \in Resolvers :
          (pc[p] = "L138" /\ pc'[p] = "idle" /\ quiet /\ answered' = answered) =>
              (ret' = Returned(p, FALSE) /\ chain' = chain)]_vars

\* the transactions that credit this node with the fees of txs
RECURSIVE FeeCredits(_, _)
FeeCredits(txs, always) ==
    IF txs = <<>> THEN <<>>
    ELSE LET tx == Head(txs)
             rest == FeeCredits(Tail(txs), always)
         IN  IF always \/ tx.fee > 0
             THEN <<[recipient |-> nodeId, amount |-> tx.fee, fee |-> 0]>> \o rest
             ELSE rest

\* a sequence of transactions without their senders
Payees(txs) ==
    [k \in 1..Len(txs) |->
        [recipient |-> txs[k].recipient, amount |-> txs[k].amount,
         fee |-> txs[k].fee]]

\* C6: the block a mine request appends holds the pool as it was when the
\* proof was accepted, then one credit of its fee to this node for each of
\* those transactions (for each with a fee, or for each), then the subsidy.
C6_BlockContent ==
    [][\A m \in Miners :
          (pc[m] = "L79" /\ pc'[m] = "idle") =>
              LET block == LastBlock(chain')
                  pool == loc[m].accepted
                  subsidy == <<[recipient |-> nodeId, amount |-> Subsidy, fee |-> 0]>>
              IN  /\ LastBlock(block.transactions).sender = Coinbase
                  /\ \E always \in BOOLEAN :
                        Payees(block.transactions)
                            = Payees(pool) \o FeeCredits(pool, always) \o subsidy]_vars

\* an address that does not parse, or parses without a host
Malformed(address) == address.err \/ address.Host = ""

\* C7: registering a malformed address returns false and leaves the peer
\* set as it was.
C7_MalformedRejected ==
    [][\A a \in Addresses :
          (Malformed(a) /\ Register(a)) =>
              (ret' = Returned("reg", FALSE) /\ nodes' = nodes)]_vars

\* the registered nodes whose fetch does not end in a network failure, a
\* status other than 200 or a body that does not decode
RECURSIVE Reachable(_, _)
Reachable(world, keys) ==
    IF keys = <<>> THEN <<>>
    ELSE LET h == Head(keys)
             ok == h \in DOMAIN world /\ world[h].kind = "ok"
         IN  (IF ok THEN <<h>> ELSE <<>>) \o Reachable(world, Tail(keys))

\* C8: a resolve request ends as it would if the peers whose fetch fails
\* were not registered.
C8_FailedPeerSkipped ==
    [][\A p \in Resolvers :
          (pc[p] = "L138" /\ pc'[p] = "idle") =>
              LET world == answered'
                  e == Scan(world, Reachable(world, nodes),
                            loc[p].curmaxLength, loc[p].tempChain)
              IN  IF e.panic THEN ret' = Panic(p) /\ chain' = chain
                  ELSE ret' = Returned(p, ~authority) /\ chain' = e.tempChain]_vars

C10_LandsInPromisedBlock ==
    \A k \in 1..Len(chain) :
        \A j \in 1..Len(chain[k].transactions) :
            LET tx == chain[k].transactions[j]
                n == tx.amount - 10
            IN  (tx.sender = 1 /\ n \in DOMAIN promised /\ promised[n].clean)
                    => chain[k].index = promised[n].index

\* C11: when a mine request appends its block, the last block of the chain
\* still has the proof that was read before the search that gave the block's
\* proof: nothing replaced or extended the chain between the staleness check
\* and the append.
C11_CheckAndAppendAtomic ==
    [][\A m \in Miners :
          (pc[m] = "L79" /\ pc'[m] = "idle") =>
              LastBlock(chain).proof = loc[m].lastProof]_vars

\* the number of times the n-th submitted transaction occurs in txs
RECURSIVE Occurs(_, _)
Occurs(n, txs) ==
    IF txs = <<>> THEN 0
    ELSE (IF Head(txs) = Submitted(n, Head(txs).fee) THEN 1 ELSE 0)
            + Occurs(n, Tail(txs))

\* the same, summed over the blocks of c
RECURSIVE OccursInChain(_, _)
OccursInChain(n, c) ==
    IF c = <<>> THEN 0
    ELSE Occurs(n, Head(c).transactions) + OccursInChain(n, Tail(c))

\* the blocks that are built, with the pool cleared for them, and not yet appended
RECURSIVE InFlight(_)
InFlight(ms) ==
    IF ms = {} THEN <<>>
    ELSE LET m == CHOOSE x \in ms : TRUE
         IN  (IF pc[m] = "L79" THEN <<loc[m].newBlock>> ELSE <<>>)
                \o InFlight(ms \ {m})

\* C12: a submitted transaction whose request returned is, as long as the
\* chain was not replaced since, exactly once in the pool or in a block (one
\* of the chain, or one about to be appended to it).
C12_NoTxLostOrDuplicated ==
    \A n \in DOMAIN promised :
        promised[n].clean =>
            Occurs(n, transactions) + OccursInChain(n, chain)
                + OccursInChain(n, InFlight(Miners)) = 1

\* C13: every step leaves the chain as it was, appends one block to it, or
\* replaces it by a chain of more blocks.
C13_LengthNeverDecreases ==
    [][\/ chain' = chain
       \/ \E m \in Miners : chain' = Append(chain, loc[m].newBlock)
       \/ Len(chain') > Len(chain)]_vars

\* C14: in every reachable state the k-th block of the chain, counting from
\* one, has index k.
C14_IndexSequential ==
    \A k \in 1..Len(chain) : chain[k].index = k

\* C15: in every reachable state the chain has a first block, and that block
\* has what NewBlockchain gave the sentinel block: index 1, proof 100 and the
\* previous hash "1".
C15_GenesisFixed ==
    /\ chain # <<>>
    /\ chain[1].index = NewBlockchain[1].index
    /\ chain[1].proof = GenesisProof
    /\ chain[1].previous_hash = SentinelHash

\* a host that answers with a chain of no block, whatever length it reports
SendsNoBlock(world) ==
    \E h \in DOMAIN world : world[h].kind = "ok" /\ world[h].Chain = <<>>

\* C16: a resolve request during which a registered host answers with a chain
\* of no block does not panic and leaves the chain with at least one block.
C16_EmptyChainRejected ==
    [][\A p \in Resolvers :
          (pc[p] = "L138" /\ pc'[p] = "idle" /\ SendsNoBlock(answered')) =>
              (ret'.kind = "value" /\ chain' # <<>>)]_vars

\* every block of c from the second on carries the hash of the block before
\* it and a proof that is valid after that block's proof
LinkedAndProved(c) ==
    \A k \in 2..Len(c) :
        /\ c[k].previous_hash = computeHashForBlock(c[k - 1])
        /\ ValidProof(c[k - 1].proof, c[k].proof)

\* C17: for a chain of at least one block ValidChain returns true exactly
\* when every block from the second on links to and proves after the block
\* before it (so true for a chain of one block), and the call leaves the
\* node's chain, pool and peer set as they were.
C17_ValidIffLinkedAndProved ==
    [][(vcOut' # vcOut /\ Len(vcIn) >= 1) =>
          /\ vcOut' = Returned("v", LinkedAndProved(vcIn))
          /\ Len(vcIn) = 1 => vcOut'.val
          /\ UNCHANGED <<chain, transactions, nodes>>]_vars

\* the validator accepted a chain of three blocks on a node that has a
\* pending transaction and a peer
C17_Witness ==
    /\ vcOut = Returned("v", TRUE)
    /\ Len(vcIn) = 3
    /\ transactions # <<>>

\* the statements of ResolveConflicts, and those of the search loop of Mine
ResolveStmts == {"L137", "L138"}
SearchStmts == {"L90", "L103"}

\* C18: a mine request enters conflict resolution only as its first step,
\* enters the search loop only from the end of that resolution, and a retry
\* of the search goes back to reading the last block, never to the resolution.
C18_ResolveOncePerMine ==
    [][\A m \in Miners :
          /\ (pc'[m] \in ResolveStmts /\ pc[m] \notin ResolveStmts)
                => pc[m] = "idle"
          /\ (pc[m] = "L138" /\ pc'[m] # "L138") => pc'[m] \in {"L82", "idle"}
          /\ (pc'[m] = "L82") => pc[m] \in {"L82", "L138"}
          /\ (pc'[m] \in SearchStmts /\ pc[m] \notin SearchStmts)
                => pc[m] = "L82"
          /\ (pc[m] = "L103" /\ pc'[m] # "L103") => pc'[m] \in {"L90", "L111"}]_vars

\* a mine request is back at reading the last block after a search against
\* the sentinel block turned out stale
C18_Witness ==
    \E m \in Miners :
        /\ pc[m] = "L90"
        /\ loc[m].lastProof = GenesisProof
        /\ LastBlock(chain).proof # GenesisProof

\* the request of m ended in the last step by answering its block
Committed(m) == ret.proc = m /\ ret.kind = "value"

\* C19: a mine request goes from the staleness check back to the search only
\* if the proof of the last block is no longer the one it read before the
\* search, and a mine request that is in its search loop appends its block
\* sooner or later.
C19_SearchReachesCommit ==
    /\ [][\A m \in Miners :
             (pc[m] = "L103" /\ pc'[m] = "L90") =>
                 LastBlock(chain).proof # loc[m].lastProof]_vars
    /\ \A m \in Miners : (pc[m] \in SearchStmts) ~> Committed(m)

\* a mine request that had to search again is about to append its block
C19_Witness ==
    \E m \in Miners : pc[m] = "L79" /\ loc[m].retries = 1

\* C20: no statement of ResolveConflicts, in a resolve or in a mine request,
\* changes the pending pool or the peer set, whether it installs a chain or
\* not.
C20_ResolveKeepsPoolAndPeers ==
    [][\A p \in Miners \cup Resolvers :
          (pc'[p] # pc[p] /\ (pc[p] \in ResolveStmts \/ pc'[p] \in ResolveStmts))
              => (transactions' = transactions /\ nodes' = nodes)]_vars

\* a resolve request has just installed a peer's chain while a transaction
\* was pending, and the transaction is still pending
C20_Witness ==
    /\ ret = Returned("r1", ~authority)
    /\ chain = ChainB2
    /\ transactions # <<>>
    /\ nodes # <<>>

====
